---- MODULE Spec2Model ----
(***************************************************************************)
(* Model of robo_ical_booking.py: the Booking.com iCal synchronisation     *)
(* robot.  A run (one process invocation) loads the feed configuration     *)
(* from the collection integracao_config, downloads each configured iCal   *)
(* feed, maps every VEVENT to a pre-reservation and adds it to the         *)
(* collection pre_reservas unless a record with the same                   *)
(* (apartamentoId, codigoReservaOrigem, origem) is already stored.         *)
(*                                                                         *)
(* Python values are modelled as follows: a dict is a record (a missing    *)
(* key is a missing field), a list is a sequence, short text is a string,  *)
(* and any other value is a record whose field tipo names its Python type  *)
(* (None is [tipo |-> "None"]).                                            *)
(***************************************************************************)
EXTENDS Integers, Sequences, FiniteSets, TLC

VARIABLES
    agendador,          \* how the external scheduler invokes runs
    integracao_config,  \* Firestore collection integracao_config (documents)
    web,                \* what each configured feed URL serves
    pre_reservas,       \* Firestore collection pre_reservas (documents, in creation order)
    pc,                 \* position of each run in the program
    exit_status,        \* process exit status of each run
    urls_booking,       \* executar: the filtered configuration list
    cfgIdx,             \* executar: index of the configuration being processed
    eventos,            \* sincronizar_ical: events of the feed
    evIdx,              \* sincronizar_ical: index of the event being processed
    dados,              \* sincronizar_ical: mapped data of the current event
    criadas,            \* sincronizar_ical: counter of records created
    total_criadas,      \* executar: aggregate counter
    \* observations of the run (history), read only by the properties
    erro_config,        \* the configuration read of the run raised
    erro_verificacao,   \* the last existence query of the run raised
    houve_erro_verificacao, \* some existence query raised, in any run
    houve_falha,        \* some fetch or store call failed, in any run
    gravadas,           \* records each run actually added to pre_reservas
    baixadas,           \* per run, one flag per download attempted: did it succeed
    ao_terminar,        \* size of pre_reservas when each run ended
    antes,              \* pre_reservas when the current sincronizar_ical began
    falha               \* the call that failed last in the current sincronizar_ical

vars == <<agendador, integracao_config, web, pre_reservas, pc, exit_status,
          urls_booking, cfgIdx, eventos, evIdx, dados, criadas, total_criadas,
          erro_config, erro_verificacao, houve_erro_verificacao, houve_falha,
          gravadas, baixadas, ao_terminar, antes, falha>>

(***************************************************************************)
(* Bounds of the model.                                                    *)
(***************************************************************************)
MaxRuns == 2        \* invocations of the robot by the scheduler
MaxConfigs == 2     \* entries of icalUrls in the configuration document
MaxEventos == 2     \* components the feeds serve, all together

Runs == 1..MaxRuns

(***************************************************************************)
(* Python helpers.                                                         *)
(***************************************************************************)
None == [tipo |-> "None"]

\* dict.get(key, default)
Get(d, key, default) == IF key \in DOMAIN d THEN d[key] ELSE default

\* the empty dict {}
EmptyDict == [tipo |-> "dict", len |-> 0]

\* "not d.get(key)" for a text-valued key: the key is missing or its text is empty
NotGet(d, key) == key \notin DOMAIN d \/ d[key] = ""

RECURSIVE SeqsUpTo(_, _)
SeqsUpTo(S, n) ==
    IF n = 0 THEN {<<>>}
    ELSE LET shorter == SeqsUpTo(S, n - 1)
         IN  shorter \cup {Append(s, x) : s \in {t \in shorter : Len(t) = n - 1}, x \in S}

(***************************************************************************)
(* Calendar dates and their text form.                                     *)
(***************************************************************************)
Anos == {2024}

Bissexto(y) == (y % 4 = 0 /\ y % 100 # 0) \/ y % 400 = 0

DiasNoMes(y, m) ==
    IF m = 2 THEN (IF Bissexto(y) THEN 29 ELSE 28)
    ELSE IF m \in {4, 6, 9, 11} THEN 30 ELSE 31

Pad2(n) == IF n < 10 THEN "0" \o ToString(n) ELSE ToString(n)

\* date.strftime('%Y-%m-%d') / datetime.strftime('%Y-%m-%d')
Strftime(d) == ToString(d.y) \o "-" \o Pad2(d.m) \o "-" \o Pad2(d.d)

Date(y, m, d) == [tipo |-> "date", y |-> y, m |-> m, d |-> d]
DateTime(y, m, d, hh, mi) ==
    [tipo |-> "datetime", y |-> y, m |-> m, d |-> d, hh |-> hh, mi |-> mi]
\* the property value icalendar builds for DTSTART / DTEND
vDDDTypes(v) == [tipo |-> "vDDDTypes", dt |-> v]

(***************************************************************************)
(* Inputs: what the feeds serve and what the configuration holds.          *)
(***************************************************************************)
\* VEVENT components of a feed; a property the feed omits is a missing field
Componentes ==
    { [name |-> "VEVENT", uid |-> "abc-123", summary |-> "Jane Doe",
       dtstart |-> vDDDTypes(Date(2024, 3, 1)), dtend |-> vDDDTypes(Date(2024, 3, 5))],
      [name |-> "VEVENT", summary |-> "Ana",
       dtstart |-> vDDDTypes(DateTime(2024, 3, 10, 14, 0)),
       dtend |-> vDDDTypes(Date(2024, 3, 12))],
      [name |-> "VEVENT", summary |-> "Bob",
       dtstart |-> vDDDTypes(Date(2024, 3, 10)), dtend |-> vDDDTypes(Date(2024, 3, 12))],
      [name |-> "VEVENT", uid |-> "u-4"] }

\* the text a URL serves: empty, not a calendar, or a calendar with components
Texto(forma, comps) == [tipo |-> "str", forma |-> forma, componentes |-> comps]

Conteudos ==
    {Texto("vazio", <<>>), Texto("malformado", <<>>)}
        \cup {Texto("ical", cs) : cs \in SeqsUpTo(Componentes, MaxEventos)}

Urls == {"url1", "url2"}

\* entries of icalUrls: two Booking feeds, a feed of another platform, an
\* entry without url, and an entry that is not a dict
Entradas ==
    { [plataforma |-> "booking", url |-> "url1", apartamentoId |-> "apt1"],
      [plataforma |-> "booking", url |-> "url2", apartamentoId |-> "apt2"],
      [plataforma |-> "airbnb", url |-> "url1", apartamentoId |-> "apt1"],
      [plataforma |-> "booking", apartamentoId |-> "apt2"],
      [tipo |-> "str"] }

EhDict(e) == "tipo" \notin DOMAIN e

\* the documents of integracao_config: none, an empty one, or one with icalUrls
Documentos ==
    {<<>>, <<EmptyDict>>}
        \cup {<<[icalUrls |-> l]>> : l \in SeqsUpTo(Entradas, MaxConfigs)}

(***************************************************************************)
(* Calendar Parser and Record Mapper.                                      *)
(***************************************************************************)
\* Calendar.walk(): the calendar itself, then its subcomponents
Walk(conteudo) == <<[name |-> "VCALENDAR"]>> \o conteudo.componentes

Evento(component) ==
    [summary |-> Get(component, "summary", "Sem título"),
     description |-> Get(component, "description", ""),
     dtstart |-> Get(component, "dtstart", None),
     dtend |-> Get(component, "dtend", None),
     uid |-> Get(component, "uid", "")]

RECURSIVE Eventos(_)
\* the loop over cal.walk(): one evento per VEVENT, in feed order
Eventos(cs) ==
    IF cs = <<>> THEN <<>>
    ELSE (IF Head(cs).name = "VEVENT" THEN <<Evento(Head(cs))>> ELSE <<>>)
             \o Eventos(Tail(cs))

\* Calendar.from_ical raises on text that is not a calendar: the except
\* branch returns []
extrair_eventos(ical_content) ==
    IF ical_content.forma # "ical" THEN <<>>
    ELSE Eventos(Walk(ical_content))

formatar_data(dt) ==
    LET v == IF "dt" \in DOMAIN dt THEN dt.dt ELSE dt
    IN  IF v.tipo \in {"date", "datetime"} THEN Strftime(v)
        ELSE "None"     \* str(None)[:10]

extrair_dados_evento(evento) ==
    LET nome == Get(evento, "summary", "Hóspede Importado")
        data_checkin == formatar_data(Get(evento, "dtstart", None))
        data_checkout == formatar_data(Get(evento, "dtend", None))
        codigo_reserva == Get(evento, "uid", nome \o "-" \o data_checkin)
    IN  IF data_checkin = "" \/ data_checkout = "" THEN None
        ELSE [nome |-> nome, dataCheckin |-> data_checkin,
              dataCheckout |-> data_checkout, codigoReserva |-> codigo_reserva]

(***************************************************************************)
(* Duplicate Guard and Writer: the two accesses to pre_reservas.           *)
(***************************************************************************)
\* the fields that identify a reservation
Triplo(doc) == <<doc.apartamentoId, doc.origem, doc.codigoReservaOrigem>>

\* mutant: the query filters on 'codigoReserva', a field no document has
Consulta_campo_errado(docs, apartamento_id, codigo_reserva, origem) ==
    {i \in 1..Len(docs) :
        /\ docs[i].apartamentoId = apartamento_id
        /\ "codigoReserva" \in DOMAIN docs[i]
        /\ docs[i].origem = origem}

\* the equality query of verificar_reserva_existente: the matching documents
Consulta(docs, apartamento_id, codigo_reserva, origem) ==
    {i \in 1..Len(docs) :
        /\ docs[i].apartamentoId = apartamento_id
        /\ docs[i].codigoReservaOrigem = codigo_reserva
        /\ docs[i].origem = origem}

\* mutant: a failed query is answered "exists"
ReservaExistente_erro_como_duplicata(ok, docs, apartamento_id, codigo_reserva, origem) ==
    IF ok THEN Cardinality(Consulta(docs, apartamento_id, codigo_reserva, origem)) > 0
    ELSE TRUE

\* what verificar_reserva_existente returns; ok is FALSE when the query raises
ReservaExistente(ok, docs, apartamento_id, codigo_reserva, origem) ==
    IF ok THEN Cardinality(Consulta(docs, apartamento_id, codigo_reserva, origem)) > 0
    ELSE FALSE

\* mutant: the document stores the guest name as the reservation code
PreReserva_codigo_errado(d, apartamento_id, origem, agora) ==
    [nome |-> d.nome,
     dataCheckin |-> d.dataCheckin,
     dataCheckout |-> d.dataCheckout,
     apartamentoId |-> apartamento_id,
     origem |-> origem,
     codigoReservaOrigem |-> d.nome,
     status |-> "pendente_validacao",
     criadoEm |-> agora]

\* the document criar_pre_reserva builds; criadoEm is the server's timestamp
PreReserva(d, apartamento_id, origem, agora) ==
    [nome |-> d.nome,
     dataCheckin |-> d.dataCheckin,
     dataCheckout |-> d.dataCheckout,
     apartamentoId |-> apartamento_id,
     origem |-> origem,
     codigoReservaOrigem |-> d.codigoReserva,
     status |-> "pendente_validacao",
     criadoEm |-> agora]

\* mutant: the document id is a function of the triple, and the write merges
Add_chave_deterministica(docs, doc) ==
    IF \E i \in 1..Len(docs) : Triplo(docs[i]) = Triplo(doc)
    THEN [i \in 1..Len(docs) |->
             IF Triplo(docs[i]) = Triplo(doc)
             THEN [doc EXCEPT !.criadoEm = docs[i].criadoEm] ELSE docs[i]]
    ELSE Append(docs, doc)

\* collection('pre_reservas').add(): a new document under a generated id
Add(docs, doc) == Append(docs, doc)

(***************************************************************************)
(* Initial states.                                                         *)
(***************************************************************************)
InitRuns ==
    /\ pre_reservas = <<>>
    /\ pc = [r \in Runs |-> "idle"]
    /\ exit_status = [r \in Runs |-> 0]
    /\ urls_booking = [r \in Runs |-> <<>>]
    /\ cfgIdx = [r \in Runs |-> 0]
    /\ eventos = [r \in Runs |-> <<>>]
    /\ evIdx = [r \in Runs |-> 0]
    /\ dados = [r \in Runs |-> None]
    /\ criadas = [r \in Runs |-> 0]
    /\ total_criadas = [r \in Runs |-> 0]
    /\ erro_config = [r \in Runs |-> FALSE]
    /\ erro_verificacao = [r \in Runs |-> FALSE]
    /\ houve_erro_verificacao = FALSE
    /\ houve_falha = FALSE
    /\ gravadas = [r \in Runs |-> 0]
    /\ baixadas = [r \in Runs |-> <<>>]
    /\ ao_terminar = [r \in Runs |-> 0]
    /\ antes = [r \in Runs |-> <<>>]
    /\ falha = [r \in Runs |-> "nenhuma"]

\* the feed URLs the configuration documents name
UrlsConfiguradas(docs) ==
    {u \in Urls : \E i \in 1..Len(docs) :
        \E j \in 1..Len(Get(docs[i], "icalUrls", <<>>)) :
            Get(docs[i].icalUrls[j], "url", "") = u}

RECURSIVE NComponentesDe(_, _)
NComponentesDe(w, S) ==
    IF S = {} THEN 0
    ELSE LET u == CHOOSE v \in S : TRUE
         IN  Len(w[u].componentes) + NComponentesDe(w, S \ {u})

\* the components all feeds serve together
NComponentes(w) == NComponentesDe(w, DOMAIN w)

\* the scheduler starts a run only after the previous one has ended
Init ==
    /\ agendador = "sequencial"
    /\ integracao_config \in Documentos
    /\ web \in [UrlsConfiguradas(integracao_config) -> Conteudos]
    /\ NComponentes(web) <= MaxEventos
    /\ InitRuns

(***************************************************************************)
(* The steps of a run.  Each step holds one call to Firestore or to the    *)
(* feed server, with the local code up to the next call.                   *)
(***************************************************************************)
Origem == "booking"

Ativa(r) == pc[r] \notin {"idle", "fim"}

\* the process ends with the given status
Terminar(r, status) ==
    /\ pc' = [pc EXCEPT ![r] = "fim"]
    /\ exit_status' = [exit_status EXCEPT ![r] = status]
    /\ ao_terminar' = [ao_terminar EXCEPT ![r] = Len(pre_reservas)]

\* [url for url in ical_urls if url.get('plataforma') == 'booking']
RECURSIVE UrlsBooking(_)
UrlsBooking(ical_urls) ==
    IF ical_urls = <<>> THEN <<>>
    ELSE (IF Get(Head(ical_urls), "plataforma", "") = "booking"
          THEN <<Head(ical_urls)>> ELSE <<>>) \o UrlsBooking(Tail(ical_urls))

\* main() builds the robot: inicializar_firebase exits 1 without credentials
inicializar_firebase(r) ==
    /\ pc[r] = "idle"
    /\ (IF r = 1 THEN TRUE ELSE pc[r - 1] # "idle")
    /\ agendador = "sequencial" => \A q \in Runs : ~Ativa(q)
    /\ \E ok \in BOOLEAN :
        /\ IF ok
           THEN /\ pc' = [pc EXCEPT ![r] = "carregar"]
                /\ UNCHANGED <<exit_status, ao_terminar>>
           ELSE Terminar(r, 1)
        /\ houve_falha' = (houve_falha \/ ~ok)
    /\ UNCHANGED <<agendador, integracao_config, web, pre_reservas, urls_booking,
                   cfgIdx, eventos, evIdx, dados, criadas, total_criadas,
                   erro_config, erro_verificacao, houve_erro_verificacao,
                   gravadas, baixadas, antes, falha>>

\* carregar_configuracoes, then executar down to the start of its loop
carregar_configuracoes(r) ==
    /\ pc[r] = "carregar"
    /\ \E ok \in BOOLEAN :
        LET config == IF ok /\ integracao_config # <<>>
                      THEN Head(integracao_config) ELSE EmptyDict
            ical_urls == Get(config, "icalUrls", <<>>)
            urls == UrlsBooking(ical_urls)
        IN  /\ erro_config' = [erro_config EXCEPT ![r] = ~ok]
            /\ houve_falha' = (houve_falha \/ ~ok)
            /\ IF config = EmptyDict
               THEN Terminar(r, 0) /\ UNCHANGED <<urls_booking, cfgIdx>>
               ELSE IF \E i \in 1..Len(ical_urls) : ~EhDict(ical_urls[i])
               THEN Terminar(r, 1) /\ UNCHANGED <<urls_booking, cfgIdx>>
               ELSE IF urls = <<>>
               THEN Terminar(r, 0) /\ UNCHANGED <<urls_booking, cfgIdx>>
               ELSE /\ urls_booking' = [urls_booking EXCEPT ![r] = urls]
                    /\ cfgIdx' = [cfgIdx EXCEPT ![r] = 1]
                    /\ pc' = [pc EXCEPT ![r] = "executar"]
                    /\ UNCHANGED <<exit_status, ao_terminar>>
    /\ UNCHANGED <<agendador, integracao_config, web, pre_reservas, eventos, evIdx,
                   dados, criadas, total_criadas, erro_verificacao,
                   houve_erro_verificacao, gravadas, baixadas, antes, falha>>

\* the head of executar's loop over urls_booking, and the end of executar
executar(r) ==
    /\ pc[r] = "executar"
    /\ IF cfgIdx[r] > Len(urls_booking[r])
       THEN Terminar(r, 0) /\ UNCHANGED cfgIdx
       ELSE LET ical_config == urls_booking[r][cfgIdx[r]]
            IN  IF NotGet(ical_config, "url") \/ NotGet(ical_config, "apartamentoId")
                THEN /\ cfgIdx' = [cfgIdx EXCEPT ![r] = @ + 1]
                     /\ UNCHANGED <<pc, exit_status, ao_terminar>>
                ELSE /\ pc' = [pc EXCEPT ![r] = "baixar"]
                     /\ UNCHANGED <<cfgIdx, exit_status, ao_terminar>>
    /\ UNCHANGED <<agendador, integracao_config, web, pre_reservas, urls_booking,
                   eventos, evIdx, dados, criadas, total_criadas, erro_config,
                   erro_verificacao, houve_erro_verificacao, houve_falha,
                   gravadas, baixadas, antes, falha>>

\* what baixar_ical returns; ok is FALSE when requests raises
Baixado(ok, url) == IF ok THEN web[url] ELSE None

\* "not ical_content"
SemConteudo(ical_content) ==
    IF "forma" \in DOMAIN ical_content THEN ical_content.forma = "vazio" ELSE TRUE

\* mutant: a feed without events ends the run
RetornarZero_aborta(r) ==
    /\ pc' = [pc EXCEPT ![r] = "fim"]
    /\ UNCHANGED <<cfgIdx, eventos, evIdx>>

\* sincronizar_ical returns 0 without events, and executar goes on to the
\* next configuration
RetornarZero(r) ==
    /\ cfgIdx' = [cfgIdx EXCEPT ![r] = @ + 1]
    /\ pc' = [pc EXCEPT ![r] = "executar"]
    /\ UNCHANGED <<eventos, evIdx>>

\* sincronizar_ical down to the start of its loop: baixar_ical, extrair_eventos
baixar_ical(r) ==
    /\ pc[r] = "baixar"
    /\ \E ok \in BOOLEAN :
        LET ical_content == Baixado(ok, urls_booking[r][cfgIdx[r]].url)
            evs == IF SemConteudo(ical_content) THEN <<>>
                   ELSE extrair_eventos(ical_content)
        IN  /\ houve_falha' = (houve_falha \/ ~ok)
            /\ falha' = [falha EXCEPT ![r] = IF ok THEN "nenhuma" ELSE "baixar"]
            /\ baixadas' = [baixadas EXCEPT ![r] = Append(@, ok)]
            /\ IF evs = <<>>
               THEN RetornarZero(r) /\ UNCHANGED antes
               ELSE /\ eventos' = [eventos EXCEPT ![r] = evs]
                    /\ antes' = [antes EXCEPT ![r] = pre_reservas]
                    /\ evIdx' = [evIdx EXCEPT ![r] = 1]
                    /\ pc' = [pc EXCEPT ![r] = "evento"]
                    /\ UNCHANGED cfgIdx
    /\ UNCHANGED <<agendador, integracao_config, web, pre_reservas, exit_status,
                   urls_booking, dados, criadas, total_criadas, erro_config,
                   erro_verificacao, houve_erro_verificacao, gravadas, ao_terminar>>

\* the head of sincronizar_ical's loop over eventos (extrair_dados_evento),
\* and its return to executar, which adds criadas to total_criadas
sincronizar_ical(r) ==
    /\ pc[r] = "evento"
    /\ IF evIdx[r] > Len(eventos[r])
       THEN /\ total_criadas' = [total_criadas EXCEPT ![r] = @ + criadas[r]]
            /\ criadas' = [criadas EXCEPT ![r] = 0]
            /\ eventos' = [eventos EXCEPT ![r] = <<>>]
            /\ evIdx' = [evIdx EXCEPT ![r] = 0]
            /\ cfgIdx' = [cfgIdx EXCEPT ![r] = @ + 1]
            /\ pc' = [pc EXCEPT ![r] = "executar"]
            /\ falha' = [falha EXCEPT ![r] = "nenhuma"]
            /\ antes' = [antes EXCEPT ![r] = <<>>]
            /\ UNCHANGED dados
       ELSE LET d == extrair_dados_evento(eventos[r][evIdx[r]])
            IN  IF d = None
                THEN /\ evIdx' = [evIdx EXCEPT ![r] = @ + 1]
                     /\ UNCHANGED <<pc, dados, falha, antes>>
                     /\ UNCHANGED <<total_criadas, criadas, eventos, cfgIdx>>
                ELSE /\ dados' = [dados EXCEPT ![r] = d]
                     /\ UNCHANGED <<falha, antes>>
                     /\ pc' = [pc EXCEPT ![r] = "verificar"]
                     /\ UNCHANGED <<total_criadas, criadas, eventos, evIdx, cfgIdx>>
    /\ UNCHANGED <<agendador, integracao_config, web, pre_reservas, exit_status,
                   urls_booking, erro_config, erro_verificacao,
                   houve_erro_verificacao, houve_falha, gravadas, baixadas,
                   ao_terminar>>

\* verificar_reserva_existente and the "continue" of sincronizar_ical
verificar_reserva_existente(r) ==
    /\ pc[r] = "verificar"
    /\ \E ok \in BOOLEAN :
        LET existe == ReservaExistente(ok, pre_reservas,
                          urls_booking[r][cfgIdx[r]].apartamentoId,
                          dados[r].codigoReserva, Origem)
        IN  /\ houve_falha' = (houve_falha \/ ~ok)
            /\ houve_erro_verificacao' = (houve_erro_verificacao \/ ~ok)
            /\ falha' = [falha EXCEPT ![r] = IF ok THEN @ ELSE "verificar"]
            /\ erro_verificacao' = [erro_verificacao EXCEPT ![r] = ~ok]
            /\ IF existe
               THEN /\ evIdx' = [evIdx EXCEPT ![r] = @ + 1]
                    /\ dados' = [dados EXCEPT ![r] = None]
                    /\ pc' = [pc EXCEPT ![r] = "evento"]
               ELSE /\ pc' = [pc EXCEPT ![r] = "criar"]
                    /\ UNCHANGED <<evIdx, dados>>
    /\ UNCHANGED <<agendador, integracao_config, web, pre_reservas, exit_status,
                   urls_booking, cfgIdx, eventos, criadas, total_criadas,
                   erro_config, gravadas, baixadas, ao_terminar, antes>>

\* mutant: criar_pre_reserva answers True when add() raised
Criada_sempre(ok) == TRUE

\* what criar_pre_reserva returns; ok is FALSE when add() raises
Criada(ok) == ok

\* criar_pre_reserva and the count of sincronizar_ical
criar_pre_reserva(r) ==
    /\ pc[r] = "criar"
    /\ \E ok \in BOOLEAN :
        /\ houve_falha' = (houve_falha \/ ~ok)
        /\ falha' = [falha EXCEPT ![r] = IF ok THEN @ ELSE "criar"]
        /\ IF ok
           THEN /\ pre_reservas' = Add(pre_reservas,
                        PreReserva(dados[r], urls_booking[r][cfgIdx[r]].apartamentoId,
                                   Origem, Len(pre_reservas) + 1))
                /\ gravadas' = [gravadas EXCEPT ![r] = @ + 1]
           ELSE UNCHANGED <<pre_reservas, gravadas>>
        /\ criadas' = [criadas EXCEPT ![r] = IF Criada(ok) THEN @ + 1 ELSE @]
    /\ evIdx' = [evIdx EXCEPT ![r] = @ + 1]
    /\ dados' = [dados EXCEPT ![r] = None]
    /\ erro_verificacao' = [erro_verificacao EXCEPT ![r] = FALSE]
    /\ pc' = [pc EXCEPT ![r] = "evento"]
    /\ UNCHANGED <<agendador, integracao_config, web, exit_status, urls_booking,
                   cfgIdx, eventos, total_criadas, erro_config,
                   houve_erro_verificacao, baixadas, ao_terminar, antes>>

Next ==
    \E r \in Runs :
        \/ inicializar_firebase(r)
        \/ carregar_configuracoes(r)
        \/ executar(r)
        \/ baixar_ical(r)
        \/ sincronizar_ical(r)
        \/ verificar_reserva_existente(r)
        \/ criar_pre_reserva(r)

Spec == Init /\ [][Next]_vars

\* overlapping invocations: the scheduler starts a run while another is active
DocumentosCorrida == {<<[icalUrls |-> <<e>>]>> : e \in Entradas}

InitCorrida ==
    /\ agendador = "sobreposto"
    /\ integracao_config \in DocumentosCorrida
    /\ web \in [UrlsConfiguradas(integracao_config) -> Conteudos]
    /\ NComponentes(web) <= MaxEventos
    /\ InitRuns

SpecCorrida == InitCorrida /\ [][Next]_vars

(***************************************************************************)
(* Definitions used by the properties.                                     *)
(***************************************************************************)
SemDuplicatas(docs) ==
    \A i, j \in 1..Len(docs) : Triplo(docs[i]) = Triplo(docs[j]) => i = j

Duplicada(docs) ==
    \E i, j \in 1..Len(docs) : i < j /\ Triplo(docs[i]) = Triplo(docs[j])

RECURSIVE Soma(_, _)
Soma(f, S) == IF S = {} THEN 0 ELSE LET x == CHOOSE y \in S : TRUE
                                    IN  f[x] + Soma(f, S \ {x})

\* the configuration a run is synchronising
ConfigAtual(r) == urls_booking[r][cfgIdx[r]]

\* the entries of a list that executar does not skip
RECURSIVE NValidas(_)
NValidas(urls) ==
    IF urls = <<>> THEN 0
    ELSE (IF NotGet(Head(urls), "url") \/ NotGet(Head(urls), "apartamentoId")
          THEN 0 ELSE 1) + NValidas(Tail(urls))

\* the documents of one apartment, and those of the others, without timestamps
SemCarimbo(doc) == [k \in DOMAIN doc \ {"criadoEm"} |-> doc[k]]

RECURSIVE DoApartamento(_, _)
DoApartamento(docs, ap) ==
    IF docs = <<>> THEN <<>>
    ELSE (IF Head(docs).apartamentoId = ap THEN <<SemCarimbo(Head(docs))>> ELSE <<>>)
             \o DoApartamento(Tail(docs), ap)

RECURSIVE DeOutros(_, _)
DeOutros(docs, ap) ==
    IF docs = <<>> THEN <<>>
    ELSE (IF Head(docs).apartamentoId # ap THEN <<SemCarimbo(Head(docs))>> ELSE <<>>)
             \o DeOutros(Tail(docs), ap)

\* the documents of apartment ap after its feed's events evs were processed
\* with every call succeeding, from the documents docs of that apartment
RECURSIVE Processar(_, _, _)
Processar(docs, ap, evs) ==
    IF evs = <<>> THEN docs
    ELSE LET d == extrair_dados_evento(Head(evs))
         IN  IF d = None THEN Processar(docs, ap, Tail(evs))
             ELSE IF \E i \in 1..Len(docs) : docs[i].codigoReservaOrigem = d.codigoReserva
             THEN Processar(docs, ap, Tail(evs))
             ELSE Processar(Append(docs, SemCarimbo(PreReserva(d, ap, Origem, 0))),
                            ap, Tail(evs))

\* text that is a calendar date written YYYY-MM-DD
Datas == {Date(y, m, d) : y \in Anos, m \in 1..12, d \in 1..31}

DataValida(texto) ==
    \E dt \in Datas : dt.d <= DiasNoMes(dt.y, dt.m) /\ Strftime(dt) = texto

ParseData(texto) == CHOOSE dt \in Datas : Strftime(dt) = texto

RECURSIVE DiasAntesDoMes(_, _)
DiasAntesDoMes(y, m) == IF m = 1 THEN 0 ELSE DiasNoMes(y, m - 1) + DiasAntesDoMes(y, m - 1)

\* the day number of a date
Ordinal(dt) ==
    365 * (dt.y - 1) + ((dt.y - 1) \div 4) - ((dt.y - 1) \div 100)
        + ((dt.y - 1) \div 400) + DiasAntesDoMes(dt.y, dt.m) + dt.d

(***************************************************************************)
(* C1.  As stated: after any sequence of non-overlapping runs, whatever    *)
(* the feeds and whichever calls fail, pre_reservas holds at most one      *)
(* document per (apartamentoId, origem, codigoReservaOrigem).              *)
(***************************************************************************)
C1_NoMaximoUmPorTriplo == agendador = "sequencial" => SemDuplicatas(pre_reservas)

\* C1 as amended: the same, as long as no existence query has failed (a
\* failed query is answered "not found", and the write that follows may
\* repeat a stored triple); failed downloads and failed writes do not matter.
C1_UmPorTriploSemErroDeConsulta ==
    (agendador = "sequencial" /\ ~houve_erro_verificacao) => SemDuplicatas(pre_reservas)

\* two runs have ended, a call other than a query failed, the first run left
\* a record unwritten and the second wrote it
C1_Testemunha ==
    /\ agendador = "sequencial"
    /\ ~houve_erro_verificacao /\ houve_falha
    /\ pc[1] = "fim" /\ pc[2] = "fim"
    /\ gravadas[1] >= 1 /\ gravadas[2] >= 1
    /\ baixadas[1] = <<TRUE>> /\ baixadas[2] = <<TRUE>>

(***************************************************************************)
(* C2.  Idempotence of a re-run: with the feeds unchanged (web does not    *)
(* change), runs one after the other and no call failing, the run that     *)
(* follows another creates nothing (its count is 0) and leaves             *)
(* pre_reservas as large as the run before left it.                        *)
(***************************************************************************)
C2_Idempotencia ==
    \A r \in Runs \ {1} :
        (agendador = "sequencial" /\ ~houve_falha /\ pc[r] = "fim")
            => /\ total_criadas[r] = 0
               /\ gravadas[r] = 0
               /\ ao_terminar[r] = ao_terminar[r - 1]

\* the first run created two records, the second has ended
C2_Testemunha ==
    /\ agendador = "sequencial" /\ ~houve_falha
    /\ pc[1] = "fim" /\ pc[2] = "fim"
    /\ total_criadas[1] >= 2
    /\ baixadas[2] # <<>>
    /\ Len(pre_reservas) = total_criadas[1]

(***************************************************************************)
(* C3.  Overlapping runs: the write of criar_pre_reserva is not            *)
(* conditional on what pre_reservas holds when it happens.  A run that     *)
(* counts a record created has added one more document with that triple,   *)
(* also when another run stored the same triple after this run's query.    *)
(* So two runs that both got "not found" for a code both write it.         *)
(***************************************************************************)
C3_EscritaSemExclusao ==
    [][\A r \in Runs :
        (pc[r] = "criar" /\ criadas'[r] = criadas[r] + 1)
            => LET c == ConfigAtual(r)
               IN  Cardinality(Consulta(pre_reservas', c.apartamentoId,
                                        dados[r].codigoReserva, Origem))
                     = Cardinality(Consulta(pre_reservas, c.apartamentoId,
                                            dados[r].codigoReserva, Origem)) + 1]_vars

\* no call failed, both runs wrote one record, and the two records have the
\* same triple: both queries came before both writes
C3_Testemunha ==
    /\ agendador = "sobreposto" /\ ~houve_falha
    /\ gravadas[1] = 1 /\ gravadas[2] = 1
    /\ Len(pre_reservas) = 2
    /\ Triplo(pre_reservas[1]) = Triplo(pre_reservas[2])

(***************************************************************************)
(* C4.  Partial-failure isolation.  A download that fails, or a feed that  *)
(* does not parse, changes neither pre_reservas nor the run's counts and   *)
(* moves executar to the next configuration; every configuration that is   *)
(* not skipped is downloaded, in list order, and the run ends with         *)
(* status 0; and a feed processed without a failing call leaves, for its   *)
(* apartment, exactly the documents that its events and that apartment's   *)
(* earlier documents determine, whatever happened to the feeds before it.  *)
(***************************************************************************)
C4_TodasBaixadas ==
    \A r \in Runs :
        /\ pc[r] = "executar"
            => Len(baixadas[r]) = NValidas(SubSeq(urls_booking[r], 1, cfgIdx[r] - 1))
        /\ pc[r] \in {"evento", "verificar", "criar"}
            => Len(baixadas[r]) = NValidas(SubSeq(urls_booking[r], 1, cfgIdx[r]))
        /\ (pc[r] = "fim" /\ urls_booking[r] # <<>>)
            => /\ Len(baixadas[r]) = NValidas(urls_booking[r])
               /\ cfgIdx[r] = Len(urls_booking[r]) + 1
               /\ exit_status[r] = 0

C4_FeedLimpoDeterminado ==
    \A r \in Runs :
        (agendador = "sequencial" /\ pc[r] = "evento" /\ falha[r] = "nenhuma")
            => LET ap == ConfigAtual(r).apartamentoId
               IN  /\ DoApartamento(pre_reservas, ap)
                        = Processar(DoApartamento(antes[r], ap), ap,
                                    SubSeq(eventos[r], 1, evIdx[r] - 1))
                   /\ DeOutros(pre_reservas, ap) = DeOutros(antes[r], ap)

C4_FalhaContribuiZero ==
    \A r \in Runs :
        (pc[r] = "baixar"
            /\ (falha'[r] = "baixar" \/ web[ConfigAtual(r).url].forma = "malformado"))
            => /\ pre_reservas' = pre_reservas
               /\ total_criadas'[r] = total_criadas[r]
               /\ gravadas'[r] = gravadas[r]
               /\ pc'[r] = "executar"
               /\ cfgIdx'[r] = cfgIdx[r] + 1

C4_IsolamentoDeFalha ==
    /\ [](C4_TodasBaixadas /\ C4_FeedLimpoDeterminado)
    /\ [][C4_FalhaContribuiZero]_vars

\* the download of the first configuration, whose feed has an event,
\* failed; the second was downloaded and its record written; the run ended
C4_Testemunha ==
    /\ pc[1] = "fim"
    /\ baixadas[1] = <<FALSE, TRUE>>
    /\ ~houve_erro_verificacao
    /\ urls_booking[1][1].apartamentoId # urls_booking[1][2].apartamentoId
    /\ Len(web[urls_booking[1][1].url].componentes) = 1
    /\ gravadas[1] = 1
    /\ Len(DoApartamento(pre_reservas, urls_booking[1][1].apartamentoId)) = 0

(***************************************************************************)
(* C5.  A run whose read of integracao_config raised ends with a non-zero  *)
(* exit status, having downloaded no feed and written no record.           *)
(***************************************************************************)
C5_FalhaDeConfigEncerraComErro ==
    \A r \in Runs :
        (pc[r] = "fim" /\ erro_config[r])
            => /\ exit_status[r] # 0
               /\ baixadas[r] = <<>>
               /\ gravadas[r] = 0

(***************************************************************************)
(* C6.  The reservation code of a mapped event is the event's UID when     *)
(* the UID is present and not empty, and otherwise the guest name, "-"     *)
(* and the check-in date.                                                  *)
(***************************************************************************)
C6_CodigoDaReserva ==
    \A r \in Runs :
        pc[r] \in {"verificar", "criar"}
            => LET evento == eventos[r][evIdx[r]]
               IN  dados[r].codigoReserva
                     = IF evento.uid # "" THEN evento.uid
                       ELSE dados[r].nome \o "-" \o dados[r].dataCheckin

(***************************************************************************)
(* C7.  Every stored document carries a night count equal to its           *)
(* check-out date minus its check-in date in days.                         *)
(***************************************************************************)
C7_NoitesCalculadas ==
    \A i \in 1..Len(pre_reservas) :
        LET doc == pre_reservas[i]
        IN  /\ "noites" \in DOMAIN doc
            /\ doc.noites = Ordinal(ParseData(doc.dataCheckout))
                              - Ordinal(ParseData(doc.dataCheckin))

(***************************************************************************)
(* C8.  Every stored document has dataCheckin and dataCheckout that are    *)
(* valid YYYY-MM-DD calendar dates: an event whose dates cannot be         *)
(* normalised is not written.                                              *)
(***************************************************************************)
C8_DatasValidas ==
    \A i \in 1..Len(pre_reservas) :
        /\ DataValida(pre_reservas[i].dataCheckin)
        /\ DataValida(pre_reservas[i].dataCheckout)

(***************************************************************************)
(* C9.  A failed existence query is answered "not a duplicate": the step   *)
(* in which the query raises leads to the write of the same event, and     *)
(* the write, whether it succeeds or not, leads to the next event of the   *)
(* feed; neither ends the run.                                             *)
(***************************************************************************)
C9_ErroDeConsultaNaoDescarta ==
    [][\A r \in Runs :
        /\ (pc[r] = "verificar" /\ erro_verificacao'[r])
            => /\ pc'[r] = "criar"
               /\ dados'[r] = dados[r]
               /\ evIdx'[r] = evIdx[r]
               /\ eventos'[r] = eventos[r]
        /\ (pc[r] = "criar" /\ erro_verificacao[r])
            => /\ pc'[r] = "evento"
               /\ evIdx'[r] = evIdx[r] + 1
               /\ eventos'[r] = eventos[r]
               /\ pre_reservas' \in {pre_reservas,
                      Append(pre_reservas,
                             PreReserva(dados[r], ConfigAtual(r).apartamentoId,
                                        Origem, Len(pre_reservas) + 1))}]_vars

\* runs one after the other: a query failed, the record it could not see
\* was written a second time, and the run ended normally
C9_Testemunha ==
    /\ agendador = "sequencial"
    /\ houve_erro_verificacao
    /\ Duplicada(pre_reservas)
    /\ \A r \in Runs : pc[r] = "fim" /\ exit_status[r] = 0

(***************************************************************************)
(* C10.  A failed write is not counted and does not stop the run: at any   *)
(* moment the records a run has added to pre_reservas are those it has     *)
(* counted (criadas of the feed in progress plus total_criadas), so at     *)
(* the end of a run total_criadas is the number of records it added, and   *)
(* pre_reservas holds what the runs counted together.                      *)
(***************************************************************************)
C10_ContagemExata ==
    /\ \A r \in Runs :
        /\ total_criadas[r] + criadas[r] = gravadas[r]
        /\ pc[r] = "fim" => (criadas[r] = 0 /\ total_criadas[r] = gravadas[r])
        /\ pc[r] = "executar" => criadas[r] = 0
    /\ Soma(gravadas, Runs) = Len(pre_reservas)

\* a write failed in a feed of two events, the other event was written and
\* counted, and the loop is past both
C10_Testemunha ==
    \E r \in Runs :
        /\ pc[r] = "evento" /\ falha[r] = "criar"
        /\ Len(eventos[r]) = 2 /\ evIdx[r] = 3
        /\ criadas[r] = 1
        /\ ~houve_erro_verificacao

====
